---- MODULE Spec2Model ----
(***************************************************************************)
(* Model of inventory_system.py: one process-wide mapping `stock_data`     *)
(* from item name to quantity, the JSON file it is loaded from and saved   *)
(* to, and the free functions add_item, remove_item, get_qty, load_data,   *)
(* save_data, print_data, check_low_items and main.                        *)
(***************************************************************************)
EXTENDS Integers, Sequences, FiniteSets, TLC

(***************************************************************************)
(* Bounds of the model.                                                    *)
(***************************************************************************)
\* largest quantity the callers of Spec let an entry reach
MaxQty == 5
\* longest caller-owned log list the callers of SpecLogs build
MaxLogs == 2

(***************************************************************************)
(* Python values.  A scalar is a record [t, n, s]: its type, its numeric   *)
(* payload and its text payload.  A top-level JSON value has, in addition, *)
(* the field `items`: the (key, value) pairs of a dict in iteration order  *)
(* (Python dicts keep insertion order).                                    *)
(***************************************************************************)
PyInt(i) == [t |-> "int", n |-> i, s |-> ""]
PyBool(b) == [t |-> "bool", n |-> IF b THEN 1 ELSE 0, s |-> ""]
PyFloat(i) == [t |-> "float", n |-> i, s |-> ""]
PyStr(x) == [t |-> "str", n |-> 0, s |-> x]
PyNone == [t |-> "null", n |-> 0, s |-> ""]

Dict(its) == [t |-> "dict", n |-> 0, s |-> "", items |-> its]
List == [t |-> "list", n |-> 0, s |-> "", items |-> << >>]
EmptyDict == Dict(<< >>)

\* isinstance(v, int): bool is a subclass of int
IsInt(v) == v.t \in {"int", "bool"}
\* isinstance(v, str)
IsStr(v) == v.t = "str"

\* Lexicographic rank of the texts the model uses (str.__gt__)
StrRank(x) ==
  CASE x = "" -> 0
    [] x = "apple" -> 1
    [] x = "banana" -> 2
    [] x = "orange" -> 3
    [] x = "ten" -> 4
    [] OTHER -> 5

\* Python's a > b and a < b are defined between numbers and between texts;
\* any other pair raises TypeError.
Comparable(a, b) ==
  \/ IsInt(a) /\ IsInt(b)
  \/ IsStr(a) /\ IsStr(b)

Greater(a, b) ==
  IF IsInt(a) THEN a.n > b.n ELSE StrRank(a.s) > StrRank(b.s)

Less(a, b) ==
  IF IsInt(a) THEN a.n < b.n ELSE StrRank(a.s) < StrRank(b.s)

(***************************************************************************)
(* dict operations on the sequence of (key, value) pairs.                  *)
(***************************************************************************)
HasKey(its, k) == \E i \in 1..Len(its) : its[i].k = k

KeyIndex(its, k) == CHOOSE i \in 1..Len(its) : its[i].k = k

\* dict.get(k, default)
DictGet(its, k, default) ==
  IF HasKey(its, k) THEN its[KeyIndex(its, k)].v ELSE default

\* d[k] = v: an existing key keeps its place, a new key goes last
DictSet(its, k, v) ==
  IF HasKey(its, k)
  THEN [its EXCEPT ![KeyIndex(its, k)] = [k |-> k, v |-> v]]
  ELSE Append(its, [k |-> k, v |-> v])

\* del d[k]
DictDel(its, k) == SelectSeq(its, LAMBDA e : e.k # k)

Keys(its) == {its[i].k : i \in 1..Len(its)}

(***************************************************************************)
(* JSON text.  A file's text is a sequence of tokens [c, s]: punctuation,  *)
(* one decimal digit, a minus sign, whitespace, the literal null, or a     *)
(* quoted string carrying its text in s.                                   *)
(***************************************************************************)
Tok(c) == [c |-> c, s |-> ""]
StrTok(x) == [c |-> "str", s |-> x]
Ws == Tok("ws")

DigitChar == <<"0", "1", "2", "3", "4", "5", "6", "7", "8", "9">>
IsDigit(tok) == \E d \in 1..10 : DigitChar[d] = tok.c
DigitVal(tok) == (CHOOSE d \in 1..10 : DigitChar[d] = tok.c) - 1

\* decimal digits of n >= 0, most significant first
RECURSIVE Digits(_)
Digits(n) ==
  IF n < 10 THEN <<Tok(DigitChar[n + 1])>>
  ELSE Append(Digits(n \div 10), Tok(DigitChar[(n % 10) + 1]))

\* the encoder, were it to drop the sign of a negative integer
DumpScalarUnsigned(v) ==
  CASE v.t = "int" -> Digits(IF v.n < 0 THEN -v.n ELSE v.n)
    [] v.t = "str" -> <<StrTok(v.s)>>
    [] v.t = "bool" -> <<Tok(IF v.n = 1 THEN "true" ELSE "false")>>
    [] OTHER -> <<Tok("null")>>

\* json encoding of a scalar (int.__repr__, "null", a quoted string;
\* True and False as true and false)
DumpScalar(v) ==
  CASE v.t = "int" -> IF v.n < 0 THEN <<Tok("-")>> \o Digits(-v.n) ELSE Digits(v.n)
    [] v.t = "str" -> <<StrTok(v.s)>>
    [] v.t = "bool" -> <<Tok(IF v.n = 1 THEN "true" ELSE "false")>>
    [] OTHER -> <<Tok("null")>>

\* the members of an object from the i-th on, each on a line of its own
\* (indent=4), separated by commas
RECURSIVE DumpMembers(_, _)
DumpMembers(its, i) ==
  IF i > Len(its) THEN << >>
  ELSE <<Ws, StrTok(its[i].k.s), Tok(":"), Ws>> \o DumpScalar(its[i].v)
       \o (IF i < Len(its) THEN <<Tok(",")>> ELSE <<Ws>>)
       \o DumpMembers(its, i + 1)

\* json.dump(value, f, indent=4)
Dumps(val) ==
  CASE val.t = "dict" ->
         IF val.items = << >> THEN <<Tok("{"), Tok("}")>>
         ELSE <<Tok("{")>> \o DumpMembers(val.items, 1) \o <<Tok("}")>>
    [] val.t = "list" -> <<Tok("["), Tok("]")>>
    [] OTHER -> DumpScalar(val)

(***************************************************************************)
(* json.load: the decoder, on the token sequence.                          *)
(***************************************************************************)
Fail == [ok |-> FALSE, val |-> PyNone, next |-> 0]

At(text, i, c) == i <= Len(text) /\ text[i].c = c

\* skip insignificant whitespace from position i
RECURSIVE SkipWs(_, _)
SkipWs(text, i) == IF At(text, i, "ws") THEN SkipWs(text, i + 1) ELSE i

\* the run of digits from position i, with the value read so far
RECURSIVE ReadDigits(_, _, _)
ReadDigits(text, i, acc) ==
  IF i <= Len(text) /\ IsDigit(text[i])
  THEN ReadDigits(text, i + 1, acc * 10 + DigitVal(text[i]))
  ELSE [val |-> acc, next |-> i]

\* a JSON number without fraction or exponent: -? (0 | [1-9][0-9]*)
ParseNumber(text, i) ==
  LET neg == At(text, i, "-")
      j == IF neg THEN i + 1 ELSE i
  IN IF ~(j <= Len(text) /\ IsDigit(text[j])) THEN Fail
     ELSE LET r == IF text[j].c = "0" THEN [val |-> 0, next |-> j + 1]
                   ELSE ReadDigits(text, j, 0)
          IN [ok |-> TRUE,
              val |-> PyInt(IF neg THEN -r.val ELSE r.val),
              next |-> r.next]

\* a scalar JSON value at position i
ParseScalar(text, i) ==
  IF i > Len(text) THEN Fail
  ELSE CASE text[i].c = "str" -> [ok |-> TRUE, val |-> PyStr(text[i].s), next |-> i + 1]
         [] text[i].c = "null" -> [ok |-> TRUE, val |-> PyNone, next |-> i + 1]
         [] text[i].c = "true" -> [ok |-> TRUE, val |-> PyBool(TRUE), next |-> i + 1]
         [] text[i].c = "false" -> [ok |-> TRUE, val |-> PyBool(FALSE), next |-> i + 1]
         [] OTHER -> ParseNumber(text, i)

\* the members of an object, position i at the first key; acc is the dict
\* built so far (a repeated key keeps its place and takes the later value)
RECURSIVE ParseMembers(_, _, _)
ParseMembers(text, i, acc) ==
  IF ~At(text, i, "str") THEN Fail
  ELSE LET c == SkipWs(text, i + 1) IN
       IF ~At(text, c, ":") THEN Fail
       ELSE LET v == ParseScalar(text, SkipWs(text, c + 1)) IN
            IF ~v.ok THEN Fail
            ELSE LET its == DictSet(acc, PyStr(text[i].s), v.val)
                     e == SkipWs(text, v.next)
                 IN CASE At(text, e, ",") -> ParseMembers(text, SkipWs(text, e + 1), its)
                      [] At(text, e, "}") -> [ok |-> TRUE, val |-> Dict(its), next |-> e + 1]
                      [] OTHER -> Fail

\* one JSON value at position i: an object, the empty array or a scalar
ParseValue(text, i) ==
  CASE At(text, i, "{") ->
         LET j == SkipWs(text, i + 1) IN
         IF At(text, j, "}") THEN [ok |-> TRUE, val |-> EmptyDict, next |-> j + 1]
         ELSE ParseMembers(text, j, << >>)
    [] At(text, i, "[") ->
         LET j == SkipWs(text, i + 1) IN
         IF At(text, j, "]") THEN [ok |-> TRUE, val |-> List, next |-> j + 1]
         ELSE Fail
    [] OTHER ->
         LET r == ParseScalar(text, i) IN
         IF r.ok THEN [ok |-> TRUE,
                       val |-> [t |-> r.val.t, n |-> r.val.n, s |-> r.val.s, items |-> << >>],
                       next |-> r.next]
         ELSE Fail

\* json.loads(text): a value, then nothing but whitespace; ok = FALSE is
\* json.JSONDecodeError
Loads(text) ==
  LET r == ParseValue(text, SkipWs(text, 1)) IN
  IF r.ok /\ SkipWs(text, r.next) = Len(text) + 1
  THEN [ok |-> TRUE, val |-> r.val]
  ELSE [ok |-> FALSE, val |-> EmptyDict]

(***************************************************************************)
(* State.                                                                  *)
(***************************************************************************)
VARIABLES
  stock_data,   \* the module global (line 9): a top-level value
  file,         \* inventory.json on disk: [st, text]
  logs,         \* the caller-owned log lists, by owner
  local_logs,   \* add_item's local `logs` when the last call returned (<< >> after any other call)
  call,         \* the last call: [op, item, qty, logs]
  before,       \* stock_data when the last call began
  raised,       \* the exception the last call let escape, or "none"
  ret,          \* what the last call returned or printed, as a sequence
  diag,         \* the diagnostic the last call logged, or "none"
  pc            \* main's position; "api" when the functions are called freely

vars == <<stock_data, file, logs, local_logs, call, before, raised, ret, diag, pc>>

Owners == {"a", "b"}

Call(op, item, qty, lg) == [op |-> op, item |-> item, qty |-> qty, logs |-> lg]

\* the file states: no file, a file the process may not open, a file whose
\* bytes are not UTF-8, or a text
Absent == [st |-> "absent", text |-> << >>]
NoPerm == [st |-> "noperm", text |-> << >>]
BadBytes == [st |-> "badbytes", text |-> << >>]
Text(toks) == [st |-> "text", text |-> toks]

(***************************************************************************)
(* add_item (lines 19-36).                                                 *)
(***************************************************************************)
\* the default argument logs=[] (line 13): one list shared by the calls
SharedLogs(previous) == previous

\* lines 24-25: logs=None is replaced by a list of this call's own, whatever
\* list the previous call worked on
NewLogs(previous) == << >>

\* the validation, were it to miss the empty item
ValidAddTypesOnly(item, qty) == IsStr(item) /\ IsInt(qty)

\* line 28
ValidAdd(item, qty) == IsStr(item) /\ IsInt(qty) /\ item.s # ""

\* line 35: the log line, with datetime.now() = now
LogEntry(now, item, qty) == [ts |-> now, qty |-> qty, item |-> item.s]

\* line 32, the sum: int + int; TypeError on text or None
CanAdd(cur, qty) == IsInt(cur) /\ IsInt(qty)

\* the sum, were it to overwrite the quantity in stock
AddQtyOverwrite(cur, qty) == PyInt(qty.n)

AddQty(cur, qty) == PyInt(cur.n + qty.n)

add_item(item, qty, lg, now) ==
  LET local == IF lg = "omitted" THEN NewLogs(local_logs) ELSE logs[lg]
      cur == DictGet(stock_data.items, item, PyInt(0))
      stays == /\ UNCHANGED <<stock_data, logs>>
               /\ local_logs' = local
  IN /\ call' = Call("add_item", item, qty, lg)
     /\ before' = stock_data
     /\ ret' = << >>
     /\ UNCHANGED file
     /\ IF ~ValidAdd(item, qty)
        THEN raised' = "none" /\ diag' = "error: Invalid input" /\ stays
        ELSE IF stock_data.t # "dict"
        THEN raised' = "AttributeError" /\ diag' = "none" /\ stays
        ELSE IF ~CanAdd(cur, qty)
        THEN raised' = "TypeError" /\ diag' = "none" /\ stays
        ELSE /\ raised' = "none"
             /\ diag' = "info: Added"
             /\ stock_data' = Dict(DictSet(stock_data.items, item, AddQty(cur, qty)))
             /\ local_logs' = Append(local, LogEntry(now, item, qty))
             /\ logs' = IF lg = "omitted" THEN logs
                        ELSE [logs EXCEPT ![lg] = local_logs']

(***************************************************************************)
(* remove_item (lines 49-61).                                              *)
(***************************************************************************)
\* stock_data[item] on a value that is no dict: a list or a text indexed by
\* an int is out of range, anything else is a TypeError
SubscriptError(val, item) ==
  IF val.t \in {"list", "str"} /\ IsInt(item) THEN "IndexError" ELSE "TypeError"

\* the comparison, were it current >= quantity
ExceedsOrEquals(cur, qty) == Greater(cur, qty) \/ cur = qty

\* line 52
Exceeds(cur, qty) == Greater(cur, qty)

\* remove_item without its handler
RemoveCaughtNothing == {}

\* line 60: the exceptions remove_item handles
RemoveCaught == {"KeyError"}

remove_item(item, qty) ==
  LET cur == DictGet(stock_data.items, item, PyNone) IN
  /\ call' = Call("remove_item", item, qty, "-")
  /\ before' = stock_data
  /\ ret' = << >>
  /\ UNCHANGED <<file, logs>>
  /\ local_logs' = << >>
  /\ IF stock_data.t # "dict"
     THEN /\ raised' = SubscriptError(stock_data, item)
          /\ diag' = "none" /\ UNCHANGED stock_data
     ELSE IF ~HasKey(stock_data.items, item)
     THEN /\ UNCHANGED stock_data
          /\ IF "KeyError" \in RemoveCaught
             THEN raised' = "none" /\ diag' = "warning: not in stock"
             ELSE raised' = "KeyError" /\ diag' = "none"
     ELSE IF ~Comparable(cur, qty)
     THEN raised' = "TypeError" /\ diag' = "none" /\ UNCHANGED stock_data
     ELSE IF Exceeds(cur, qty)
     THEN IF IsInt(cur)
          THEN /\ raised' = "none"
               /\ diag' = "info: Removed"
               /\ stock_data' = Dict(DictSet(stock_data.items, item, PyInt(cur.n - qty.n)))
          ELSE /\ raised' = "TypeError"                     \* text - text
               /\ diag' = "none" /\ UNCHANGED stock_data
     ELSE /\ raised' = "none"
          /\ diag' = "info: Removed"
          /\ stock_data' = Dict(DictDel(stock_data.items, item))

(***************************************************************************)
(* get_qty (lines 63-65).                                                  *)
(***************************************************************************)
\* line 65
Lookup(val, item) == DictGet(val.items, item, PyInt(0))

get_qty(item) ==
  /\ call' = Call("get_qty", item, PyNone, "-")
  /\ before' = stock_data
  /\ diag' = "none"
  /\ UNCHANGED <<stock_data, file, logs>>
  /\ local_logs' = << >>
  /\ IF stock_data.t # "dict"
     THEN raised' = "AttributeError" /\ ret' = << >>
     ELSE raised' = "none" /\ ret' = <<Lookup(stock_data, item)>>

(***************************************************************************)
(* load_data (lines 76-88) and save_data (lines 96-105).                   *)
(***************************************************************************)
\* line 86: the exceptions load_data handles
LoadCaught == {"FileNotFoundError", "JSONDecodeError"}

\* lines 83-84: what open and json.load raise, or "none"
LoadError(f) ==
  CASE f.st = "absent" -> "FileNotFoundError"
    [] f.st = "noperm" -> "PermissionError"
    [] f.st = "badbytes" -> "UnicodeDecodeError"
    [] OTHER -> IF Loads(f.text).ok THEN "none" ELSE "JSONDecodeError"

load_data ==
  LET err == LoadError(file) IN
  /\ call' = Call("load_data", PyNone, PyNone, "-")
  /\ before' = stock_data
  /\ ret' = << >>
  /\ UNCHANGED <<file, logs>>
  /\ local_logs' = << >>
  /\ IF err = "none"
     THEN /\ raised' = "none" /\ diag' = "info: loaded"
          /\ stock_data' = Loads(file.text).val
     ELSE IF err \in LoadCaught
     THEN /\ raised' = "none" /\ diag' = "error: Failed to load"
          /\ stock_data' = EmptyDict
     ELSE raised' = err /\ diag' = "none" /\ UNCHANGED stock_data

\* line 102
Serialize(val) == Dumps(val)

save_data ==
  /\ call' = Call("save_data", PyNone, PyNone, "-")
  /\ before' = stock_data
  /\ ret' = << >>
  /\ raised' = "none"
  /\ UNCHANGED <<stock_data, logs>>
  /\ local_logs' = << >>
  /\ IF file.st = "noperm"                                  \* except IOError
     THEN diag' = "error: Failed to save" /\ UNCHANGED file
     ELSE diag' = "info: saved" /\ file' = Text(Serialize(stock_data))

(***************************************************************************)
(* print_data (lines 107-112) and check_low_items (lines 114-116).         *)
(***************************************************************************)
print_data ==
  /\ call' = Call("print_data", PyNone, PyNone, "-")
  /\ before' = stock_data
  /\ diag' = "none"
  /\ UNCHANGED <<stock_data, file, logs>>
  /\ local_logs' = << >>
  /\ IF stock_data.t # "dict"
     THEN raised' = "AttributeError" /\ ret' = << >>
     ELSE raised' = "none" /\ ret' = stock_data.items

\* the filter, were it qty <= threshold
IsLowOrEqual(qty, threshold) == ~Greater(qty, threshold)

\* line 116, the filter
IsLow(qty, threshold) == Less(qty, threshold)

\* the comprehension from the i-th entry on: the keys kept, or the TypeError
\* of the first quantity that does not compare with the threshold
RECURSIVE LowScan(_, _, _)
LowScan(its, i, threshold) ==
  IF i > Len(its) THEN [ok |-> TRUE, val |-> << >>]
  ELSE IF ~Comparable(its[i].v, threshold) THEN [ok |-> FALSE, val |-> << >>]
  ELSE LET rest == LowScan(its, i + 1, threshold) IN
       IF ~rest.ok THEN rest
       ELSE IF IsLow(its[i].v, threshold)
       THEN [ok |-> TRUE, val |-> <<its[i].k>> \o rest.val]
       ELSE rest

\* line 114
DefaultThreshold == 5

check_low_items(threshold) ==
  LET r == LowScan(stock_data.items, 1, threshold) IN
  /\ call' = Call("check_low_items", PyNone, threshold, "-")
  /\ before' = stock_data
  /\ diag' = "none"
  /\ UNCHANGED <<stock_data, file, logs>>
  /\ local_logs' = << >>
  /\ IF stock_data.t # "dict" THEN raised' = "AttributeError" /\ ret' = << >>
     ELSE IF ~r.ok THEN raised' = "TypeError" /\ ret' = << >>
     ELSE raised' = "none" /\ ret' = r.val

(***************************************************************************)
(* The callers' inputs.                                                    *)
(***************************************************************************)
Apple == PyStr("apple")
Banana == PyStr("banana")
Orange == PyStr("orange")

Pair(k, v) == [k |-> k, v |-> v]

Quantities == {PyInt(q) : q \in (-1)..MaxQty}

AddItems == {Apple, Banana, PyStr(""), PyInt(123)}
AddQtys == Quantities \cup {PyBool(TRUE), PyStr("ten"), PyFloat(1)}
RemoveItems == {Apple, Banana, Orange, PyInt(123)}
RemoveQtys == Quantities \cup {PyStr("ten")}
Thresholds == Quantities \cup {PyInt(DefaultThreshold)}
Times == {1, 2}

\* texts inventory.json may hold that are no object of names to integers
BadTexts ==
  { <<Tok("{")>>,
    <<Tok("["), Tok("]")>>,
    <<Tok("5")>>,
    <<Tok("{"), StrTok("apple"), Tok(":"), Tok("0"), Tok("1"), Tok("}")>>,
    Dumps(Dict(<<Pair(Apple, PyStr("ten"))>>)),
    Dumps(Dict(<<Pair(Banana, PyNone), Pair(Apple, PyInt(1))>>)) }

\* the values load_data leaves in stock_data for a readable, decodable text
Loaded(texts) == {Loads(x).val : x \in {y \in texts : Loads(y).ok}}

\* the callers of Spec keep every quantity within (-1)..MaxQty
InRange(n) == n >= -1 /\ n <= MaxQty

AddInRange(item, qty) ==
  (ValidAdd(item, qty) /\ stock_data.t = "dict"
     /\ CanAdd(DictGet(stock_data.items, item, PyInt(0)), qty))
  => InRange(DictGet(stock_data.items, item, PyInt(0)).n + qty.n)

RemoveInRange(item, qty) ==
  (stock_data.t = "dict" /\ HasKey(stock_data.items, item) /\ IsInt(qty)
     /\ IsInt(DictGet(stock_data.items, item, PyNone)))
  => InRange(DictGet(stock_data.items, item, PyNone).n - qty.n)

(***************************************************************************)
(* Spec: the in-memory operations called freely, in any order and with     *)
(* logs omitted, on the empty inventory (line 9) or on one that load_data  *)
(* left behind.                                                            *)
(***************************************************************************)
NoCall == Call("none", PyNone, PyNone, "-")

Quiet ==
  /\ logs = [o \in Owners |-> << >>]
  /\ local_logs = << >>
  /\ call = NoCall
  /\ before = stock_data
  /\ raised = "none"
  /\ ret = << >>
  /\ diag = "none"

Init ==
  /\ stock_data \in {EmptyDict} \cup Loaded(BadTexts)
  /\ file = Absent
  /\ Quiet
  /\ pc = "api"

AddItemCall ==
  \E item \in AddItems, qty \in AddQtys, now \in Times :
    /\ AddInRange(item, qty)
    /\ add_item(item, qty, "omitted", now)
    /\ UNCHANGED pc

RemoveItemCall ==
  \E item \in RemoveItems, qty \in RemoveQtys :
    /\ RemoveInRange(item, qty)
    /\ remove_item(item, qty)
    /\ UNCHANGED pc

GetQtyCall == \E item \in RemoveItems : get_qty(item) /\ UNCHANGED pc

PrintDataCall == print_data /\ UNCHANGED pc

CheckLowItemsCall == \E th \in Thresholds : check_low_items(th) /\ UNCHANGED pc

Next ==
  \/ AddItemCall
  \/ RemoveItemCall
  \/ GetQtyCall
  \/ PrintDataCall
  \/ CheckLowItemsCall

Spec == Init /\ [][Next]_vars

(***************************************************************************)
(* SpecFile: load_data and save_data between additions and removals,       *)
(* while the file may change under the program between calls.              *)
(***************************************************************************)
\* the quantity the callers of SpecFile add and remove: two digits
MaxBig == 12

FileTexts ==
  BadTexts \cup
  { <<Tok("{"), Tok("}")>>,
    Dumps(Dict(<<Pair(Banana, PyInt(-MaxBig)), Pair(Apple, PyInt(0))>>)) }

FileStates == {Absent, NoPerm, BadBytes} \cup {Text(x) : x \in FileTexts}

BigInRange(item, qty) ==
  LET cur == DictGet(stock_data.items, item, PyInt(0)) IN
  (stock_data.t = "dict" /\ IsInt(cur)) =>
     (cur.n + qty.n) \in {-MaxBig, 0, MaxBig}

InitFile ==
  /\ stock_data = EmptyDict
  /\ file = Absent
  /\ Quiet
  /\ pc = "api"

FileAddCall ==
  \E item \in {Apple, Banana}, qty \in {PyInt(MaxBig), PyInt(-MaxBig)}, now \in Times :
    /\ BigInRange(item, qty)
    /\ add_item(item, qty, "omitted", now)
    /\ UNCHANGED pc

FileRemoveCall ==
  \E item \in {Apple, Banana} :
    /\ BigInRange(item, PyInt(-MaxBig))
    /\ remove_item(item, PyInt(MaxBig))
    /\ UNCHANGED pc

LoadDataCall == load_data /\ UNCHANGED pc

SaveDataCall == save_data /\ UNCHANGED pc

\* another process replaces, removes or protects inventory.json
FileChange ==
  /\ file' \in FileStates
  /\ call' = Call("env", PyNone, PyNone, "-")
  /\ before' = stock_data
  /\ raised' = "none"
  /\ ret' = << >>
  /\ diag' = "none"
  /\ local_logs' = << >>
  /\ UNCHANGED <<stock_data, logs, pc>>

NextFile ==
  \/ FileAddCall
  \/ FileRemoveCall
  \/ LoadDataCall
  \/ SaveDataCall
  \/ FileChange

SpecFile == InitFile /\ [][NextFile]_vars

(***************************************************************************)
(* SpecLogs: add_item called with logs omitted or with a list the caller   *)
(* owns.                                                                   *)
(***************************************************************************)
LogAddCall ==
  \E item \in {Apple, PyStr(""), PyInt(123)}, qty \in {PyInt(1), PyStr("ten")},
     lg \in {"omitted"} \cup Owners, now \in Times :
    /\ AddInRange(item, qty)
    /\ lg \in Owners => Len(logs[lg]) < MaxLogs
    /\ add_item(item, qty, lg, now)
    /\ UNCHANGED pc

LogRemoveCall == remove_item(Apple, PyInt(1)) /\ UNCHANGED pc

NextLogs == LogAddCall \/ LogRemoveCall

SpecLogs == Init /\ [][NextLogs]_vars

(***************************************************************************)
(* SpecMain: main (lines 118-135), one statement at a time, from any       *)
(* state of inventory.json.  An exception no statement handles ends the    *)
(* run.                                                                    *)
(***************************************************************************)
MainTexts ==
  FileTexts \cup
  { Dumps(Dict(<<Pair(Apple, PyInt(1))>>)),
    Dumps(Dict(<<Pair(Orange, PyInt(1))>>)),
    Dumps(Dict(<<Pair(Orange, PyStr("ten"))>>)),
    Dumps(Dict(<<Pair(Banana, PyInt(3)), Pair(Apple, PyInt(-7))>>)) }

MainFiles == {Absent, NoPerm, BadBytes} \cup {Text(x) : x \in MainTexts}

InitMain ==
  /\ stock_data = EmptyDict
  /\ file \in MainFiles
  /\ Quiet
  /\ pc = "line 120"

\* the statement at `line`, then the statement at `after`
Stmt(line, after, op) ==
  /\ pc = line
  /\ op
  /\ pc' = IF raised' = "none" THEN after ELSE "crashed"

Main120 == Stmt("line 120", "line 121", load_data)
Main121 == \E now \in Times : Stmt("line 121", "line 122", add_item(Apple, PyInt(10), "omitted", now))
Main122 == \E now \in Times : Stmt("line 122", "line 125", add_item(Banana, PyInt(5), "omitted", now))
Main125 == \E now \in Times : Stmt("line 125", "line 127", add_item(PyInt(123), PyStr("ten"), "omitted", now))
Main127 == Stmt("line 127", "line 129", remove_item(Apple, PyInt(3)))
Main129 == Stmt("line 129", "line 131", remove_item(Orange, PyInt(1)))
Main131 == Stmt("line 131", "line 132", get_qty(Apple))
Main132 == Stmt("line 132", "line 134", check_low_items(PyInt(DefaultThreshold)))
Main134 == Stmt("line 134", "line 135", print_data)
Main135 == Stmt("line 135", "done", save_data)

NextMain ==
  \/ Main120
  \/ Main121
  \/ Main122
  \/ Main125
  \/ Main127
  \/ Main129
  \/ Main131
  \/ Main132
  \/ Main134
  \/ Main135

SpecMain == InitMain /\ [][NextMain]_vars

(***************************************************************************)
(* Properties.                                                             *)
(***************************************************************************)
\* a mapping of non-empty item names to integers, each key once
IsInventory(val) ==
  /\ val.t = "dict"
  /\ \A i \in 1..Len(val.items) :
       /\ IsStr(val.items[i].k) /\ val.items[i].k.s # ""
       /\ val.items[i].v.t = "int"
  /\ Cardinality(Keys(val.items)) = Len(val.items)

\* dict equality: the same keys with the same values, in any order
SameMap(a, b) ==
  /\ a.t = "dict" /\ b.t = "dict"
  /\ Keys(a.items) = Keys(b.items)
  /\ \A k \in Keys(a.items) : Lookup(a, k) = Lookup(b, k)

\* every entry but the one of `item` is what it was before the call
OthersKept(item) ==
  /\ Keys(stock_data.items) \ {item} = Keys(before.items) \ {item}
  /\ \A k \in Keys(before.items) \ {item} : Lookup(stock_data, k) = Lookup(before, k)
  /\ Cardinality(Keys(stock_data.items)) = Len(stock_data.items)

ElemsOf(seq) == {seq[i] : i \in 1..Len(seq)}

\* C1: every key of the inventory maps to a strictly positive integer, in
\* every state reachable from the empty inventory by add_item, remove_item,
\* load_data and save_data.
C1_QuantitiesPositive ==
  stock_data.t = "dict" =>
    \A i \in 1..Len(stock_data.items) :
      stock_data.items[i].v.t = "int" /\ stock_data.items[i].v.n > 0

\* C2: add_item with a non-empty text item and an integer quantity, on an
\* inventory of integers, sets the item to its previous quantity (0 when
\* absent) plus the quantity and leaves every other entry as it was; from
\* the empty inventory with a positive quantity the item's quantity is then
\* the quantity added.
C2_AddItemAddsQuantity ==
  ( /\ call.op = "add_item"
    /\ IsInventory(before)
    /\ IsStr(call.item) /\ call.item.s # ""
    /\ call.qty.t = "int" )
  => /\ raised = "none"
     /\ stock_data.t = "dict"
     /\ HasKey(stock_data.items, call.item)
     /\ Lookup(stock_data, call.item) = PyInt(Lookup(before, call.item).n + call.qty.n)
     /\ OthersKept(call.item)
     /\ (before = EmptyDict /\ call.qty.n > 0) => Lookup(stock_data, call.item) = call.qty

\* an addition to an item already in stock, beside another entry
C2_Witness ==
  /\ call.op = "add_item"
  /\ diag = "info: Added"
  /\ IsInventory(before)
  /\ Len(before.items) = 2
  /\ HasKey(before.items, call.item)
  /\ Lookup(before, call.item).n > 0
  /\ call.qty.t = "int" /\ call.qty.n > 0

\* C3: add_item with an item that is no text or is empty, or a quantity that
\* is no integer, raises nothing, leaves the inventory as it was and appends
\* nothing to the caller's logs.
C3_InvalidAddIsNoOp ==
  [][ ( /\ call'.op = "add_item"
        /\ ~(IsStr(call'.item) /\ call'.item.s # "" /\ IsInt(call'.qty)) )
      => /\ raised' = "none"
         /\ stock_data' = stock_data
         /\ logs' = logs
         /\ local_logs' = IF call'.logs \in Owners THEN logs[call'.logs] ELSE << >>
    ]_vars

\* an invalid addition given a list that already holds an entry, on a
\* non-empty inventory
C3_Witness ==
  /\ call.op = "add_item"
  /\ diag = "error: Invalid input"
  /\ call.logs \in Owners
  /\ Len(logs[call.logs]) > 0
  /\ stock_data.t = "dict" /\ stock_data.items # << >>
  /\ call.item = PyInt(123) /\ call.qty = PyStr("ten")

\* C4: remove_item of an item in stock with integer quantity c, for an
\* integer q: the quantity becomes c - q when c > q; otherwise (c <= q) the
\* key is deleted and get_qty gives 0; every other entry stays as it was.
C4_RemoveItemDecrementsOrDeletes ==
  ( /\ call.op = "remove_item"
    /\ before.t = "dict"
    /\ HasKey(before.items, call.item)
    /\ Lookup(before, call.item).t = "int"
    /\ call.qty.t = "int" )
  => /\ raised = "none"
     /\ OthersKept(call.item)
     /\ IF Lookup(before, call.item).n > call.qty.n
        THEN /\ HasKey(stock_data.items, call.item)
             /\ Lookup(stock_data, call.item) = PyInt(Lookup(before, call.item).n - call.qty.n)
        ELSE /\ ~HasKey(stock_data.items, call.item)
             /\ Lookup(stock_data, call.item) = PyInt(0)

\* the removal of exactly the quantity in stock, beside another entry
C4_Witness ==
  /\ call.op = "remove_item"
  /\ diag = "info: Removed"
  /\ Len(before.items) = 2
  /\ HasKey(before.items, call.item)
  /\ Lookup(before, call.item) = call.qty
  /\ call.qty.t = "int" /\ call.qty.n > 0
  /\ Len(stock_data.items) = 1

\* C5: remove_item of an item that is no key of the inventory leaves the
\* inventory as it was and raises nothing, whatever the quantity.
C5_RemoveMissingIsNoOp ==
  ( /\ call.op = "remove_item"
    /\ before.t = "dict"
    /\ ~HasKey(before.items, call.item) )
  => raised = "none" /\ stock_data = before

\* the removal of an absent item, with a quantity that is no number, from a
\* non-empty inventory
C5_Witness ==
  /\ call.op = "remove_item"
  /\ diag = "warning: not in stock"
  /\ call.item = Orange
  /\ call.qty = PyStr("ten")
  /\ before.t = "dict" /\ Len(before.items) = 2
  /\ stock_data = before

\* the file is missing, unreadable or undecodable, or its text is no JSON
\* object of item names to integers
BadFile(f) ==
  \/ f.st # "text"
  \/ ~Loads(f.text).ok
  \/ ~IsInventory(Loads(f.text).val)

\* C6: load_data on a file that cannot be read or whose content is
\* malformed raises nothing and leaves the inventory empty.
C6_FailedLoadLeavesEmpty ==
  (call.op = "load_data" /\ BadFile(file)) =>
    raised = "none" /\ stock_data = EmptyDict

\* C7: save_data leaves the inventory in memory as it was, and load_data
\* right after a save_data that wrote the file gives an inventory equal to
\* the one saved, for every inventory of non-empty names and integers.
C7_SaveLoadRoundTrip ==
  [][ /\ call'.op = "save_data" => (raised' = "none" /\ stock_data' = stock_data)
      /\ ( /\ call.op = "save_data" /\ diag = "info: saved"
           /\ IsInventory(stock_data)
           /\ call'.op = "load_data" )
         => (raised' = "none" /\ SameMap(stock_data', stock_data))
    ]_vars

\* a load that read back two entries, one of them negative, that only a
\* save of this inventory can have written
C7_Witness ==
  /\ call.op = "load_data"
  /\ diag = "info: loaded"
  /\ IsInventory(stock_data)
  /\ stock_data = before
  /\ file = Text(Serialize(before))
  /\ Len(stock_data.items) = 2
  /\ Lookup(stock_data, Apple) = PyInt(MaxBig)
  /\ Lookup(stock_data, Banana) = PyInt(-MaxBig)

\* C8: main runs every statement to the end whatever inventory.json holds:
\* no exception escapes a statement.
C8_MainCompletes == pc # "crashed"

\* C9: check_low_items on an inventory of integers returns exactly the
\* items whose quantity is strictly below the threshold, each once, in the
\* inventory's iteration order, and leaves the inventory as it was.
C9_CheckLowItemsStrictlyBelow ==
  ( /\ call.op = "check_low_items"
    /\ IsInventory(before)
    /\ call.qty.t = "int" )
  => /\ raised = "none"
     /\ stock_data = before
     /\ ElemsOf(ret) = {k \in Keys(before.items) : Lookup(before, k).n < call.qty.n}
     /\ Cardinality(ElemsOf(ret)) = Len(ret)
     /\ \A i, j \in 1..Len(ret) :
          i < j => KeyIndex(before.items, ret[i]) < KeyIndex(before.items, ret[j])

\* the default threshold on an inventory whose first quantity equals it and
\* whose second is below it
C9_Witness ==
  /\ call.op = "check_low_items"
  /\ call.qty = PyInt(DefaultThreshold)
  /\ Len(before.items) = 2
  /\ before.items[1].v = PyInt(DefaultThreshold)
  /\ before.items[2].v.t = "int" /\ before.items[2].v.n < DefaultThreshold
  /\ ret = <<before.items[2].k>>

\* C10: an add_item call that omits logs works on a list of its own that
\* starts empty, so it holds this call's entry at most; a successful call
\* given a caller's list appends one entry, its own, to the end of that
\* list, and no other caller's list changes.
C10_LogsAreNotShared ==
  [][ call'.op = "add_item" =>
        /\ \A o \in Owners \ {call'.logs} : logs'[o] = logs[o]
        /\ call'.logs = "omitted" =>
             /\ Len(local_logs') = IF diag' = "info: Added" THEN 1 ELSE 0
             /\ \A i \in 1..Len(local_logs') :
                  local_logs'[i].item = call'.item.s /\ local_logs'[i].qty = call'.qty
        /\ (call'.logs \in Owners /\ diag' = "info: Added") =>
             /\ Len(logs'[call'.logs]) = Len(logs[call'.logs]) + 1
             /\ SubSeq(logs'[call'.logs], 1, Len(logs[call'.logs])) = logs[call'.logs]
             /\ logs'[call'.logs][Len(logs'[call'.logs])].item = call'.item.s
             /\ logs'[call'.logs][Len(logs'[call'.logs])].qty = call'.qty
    ]_vars

\* a successful addition appended to a caller's list that held an entry,
\* while the other caller's list holds entries too
C10_Witness ==
  /\ call.op = "add_item"
  /\ diag = "info: Added"
  /\ call.logs = "a"
  /\ Len(logs["a"]) = 2
  /\ Len(logs["b"]) = 2
  /\ local_logs = logs["a"]

====
